---------------------------- MODULE Spec2Model ----------------------------
(***************************************************************************)
(* A model of cassette/coco_tape.c: the decoder of TRS-80 Color Computer   *)
(* cassette recordings.  main() walks the samples of the recording, times  *)
(* the cycles between falling zero crossings, shifts the classified bits   *)
(* into the current block and drives process_bit(); print_prog() walks a   *)
(* chain of blocks and renders the tokenized BASIC lines with asciidump(). *)
(*                                                                         *)
(* Bytes are C uint8_t values (0..255); pointers to struct block are       *)
(* indices into the sequence heap (0 is NULL).                             *)
(***************************************************************************)
EXTENDS Integers, Sequences, FiniteSets, TLC

VARIABLES
    wav,          \* the recording as main reads it: wav.samples, and for
                  \* wav.data the set wav.falls of the indices j at which
                  \* "(wav.data[j] < 0) && (wav.data[j-1] >= 0)" holds
    j,            \* the sample index of main's for loop
    count,        \* samples counted since the last falling crossing
    heap,         \* every struct block allocated so far, by address
    freed,        \* the addresses already passed to free()
    blocks,       \* root block list pointer
    cb,           \* current block pointer
    pb,           \* previous block pointer
    nblocks,      \* number of blocks allocated
    o_one_low,    \* -o
    O_one_high,   \* -O
    z_zero_low,   \* -z
    Z_zero_high,  \* -Z
    out,          \* what was printed on stdout, in order
    status,       \* "run", or how the process ended
    calls,        \* history: one entry per invocation of print_prog
    cls,          \* history: the classification made at the last crossing
    scen          \* history: how the input of this run was built

vars == <<wav, j, count, heap, freed, blocks, cb, pb, nblocks,
          o_one_low, O_one_high, z_zero_low, Z_zero_high,
          out, status, calls, cls, scen>>

-----------------------------------------------------------------------------
(* Program constants                                                       *)

BT_NAME == 0
BT_DATA == 1
BT_EOF == 255

SYNCBYTE == 60
LEADERBYTE == 85

PROGNAMELEN == 8
MLSTARTLEN == 2
MLLOADLEN == 2
NAMEBLOCKLEN == 15

BS_NEED_LEADBYTE == 0
BS_NEED_SYNCBYTE == 1
BS_NEED_BLOCKTYPE == 2
BS_NEED_LENGTH == 3
BS_NEED_DATA == 4
BS_NEED_NAME == 5
BS_NEED_FILETYPE == 6
BS_NEED_ASCIIFLAG == 7
BS_NEED_GAPFLAG == 8
BS_NEED_STARTADDR == 9
BS_NEED_LOADADDR == 10
BS_NEED_CKSUM == 11
BS_DONE == 12

ZL == 31
ZH == 1000
OL == 18
OH == 31

LINELEN == 4096

NULL == 0

-----------------------------------------------------------------------------
(* uint8_t arithmetic                                                      *)

U8(n) == n % 256

\* AddCksum with the sum kept in an int.
AddCksumWide(c, v) == c + v

\* "cb->b_cksum += cb->b_byte;" with b_cksum = c: b_cksum is a uint8_t.
AddCksum(c, v) == U8(c + v)

\* (b >> 1) | 0x80
ShiftInOne(b) == (b \div 2) + 128

\* (b >> 1)
ShiftInZero(b) == b \div 2

Zeros(n) == [k \in 1..n |-> 0]

-----------------------------------------------------------------------------
(* struct block                                                            *)

\* malloc + memset(cb, 0, sizeof) + b_state = BS_NEED_SYNCBYTE.
\* b_data = <<>> is the NULL pointer; an allocated buffer is never empty.
NewBlock ==
    [b_state |-> BS_NEED_SYNCBYTE, b_next |-> NULL,
     b_type |-> 0, b_length |-> 0, b_cksum |-> 0, b_data |-> <<>>,
     b_progname |-> Zeros(PROGNAMELEN + 1),
     b_filetype |-> 0, b_asciiflag |-> 0, b_gapflag |-> 0,
     b_mlstart |-> Zeros(MLSTARTLEN), b_mlload |-> Zeros(MLLOADLEN),
     b_byte |-> 0, b_nbit |-> 0, b_data_i |-> 0, b_progname_i |-> 0,
     b_mlstart_i |-> 0, b_mlload_i |-> 0]

\* One thing written to stdout.  print_prog writes the "Program:" header
\* ("program"), a rendered line ("line") and its two error messages
\* ("badstart", with the tag and as text the tag, the counter and the
\* offset as printed; "toobig"); hexdump writes a line ("hexdump", with
\* its offset), "    Last line repeated %ld time(s)" ("lastrepeated") and
\* "Line repeated %ld time(s)" ("repeated"); process_bit writes "TYPE: 0x%02x" ("type", with
\* the type), "Found bad block len, resetting" ("badlen"), and through
\* PRINT_ERROR, which is a printf, "Decode Error: chksum" ("cksum") and
\* "Bad Block state" ("badstate").
Printed(kind, num, text) == [kind |-> kind, num |-> num, text |-> text]

\* What process_bit hands back: the block as left, the return code,
\* whether a store went outside the buffer it was aimed at, and what it
\* wrote to stdout.
Ret(b, rc) == [cb |-> b, rc |-> rc, ub |-> FALSE, out |-> <<>>]

\* The same with the messages msgs written.
RetSay(b, rc, msgs) == [cb |-> b, rc |-> rc, ub |-> FALSE, out |-> msgs]

\* The statement "cb->b_nbit++" that ends every byte-counting case.
IncNbit(b) == [b EXCEPT !.b_nbit = U8(@ + 1)]

\* ClearByte that leaves the byte as it is.
ClearByteKeeps(b) == b

\* "cb->b_byte = 0; cb->b_nbit = 0;"
ClearByte(b) == [b EXCEPT !.b_byte = 0, !.b_nbit = 0]

-----------------------------------------------------------------------------
(* process_bit, one operator per case of the switch                        *)

NeedSyncByte(b) ==
    IF b.b_byte = SYNCBYTE
    THEN Ret([b EXCEPT !.b_byte = 0, !.b_nbit = 1,
                       !.b_state = BS_NEED_BLOCKTYPE], 0)
    ELSE Ret(b, 0)

\* NeedBlockType with a byte that is no block type ending the run.
NeedBlockTypeFatal(b) ==
    IF b.b_nbit = 8
    THEN IF b.b_byte \in {BT_NAME, BT_DATA, BT_EOF}
         THEN Ret(IncNbit([ClearByte(b) EXCEPT !.b_type = b.b_byte,
                                               !.b_cksum = b.b_byte,
                                               !.b_state = BS_NEED_LENGTH]), 0)
         ELSE Ret(b, 1)
    ELSE Ret(IncNbit(b), 0)

NeedBlockType(b) ==
    IF b.b_nbit = 8
    THEN IF b.b_byte \in {BT_NAME, BT_DATA, BT_EOF}
         THEN Ret(IncNbit([ClearByte(b) EXCEPT !.b_type = b.b_byte,
                                               !.b_cksum = b.b_byte,
                                               !.b_state = BS_NEED_LENGTH]), 0)
         ELSE Ret(IncNbit([ClearByte(b) EXCEPT
                               !.b_state = BS_NEED_SYNCBYTE]), 0)
    ELSE Ret(IncNbit(b), 0)

\* NeedLength with a bad length of a Namefile or End of File block ending
\* the run.
NeedLengthFatal(b) ==
    IF b.b_nbit = 8
    THEN LET b1 == [ClearByte(b) EXCEPT !.b_length = b.b_byte,
                                        !.b_cksum = AddCksum(b.b_cksum, b.b_byte)]
             bad == \/ b1.b_type = BT_NAME /\ b1.b_length # NAMEBLOCKLEN
                    \/ b1.b_type = BT_EOF /\ b1.b_length # 0
             b2 == IF b1.b_type = BT_NAME THEN [b1 EXCEPT !.b_state = BS_NEED_NAME]
                   ELSE IF b1.b_type = BT_EOF
                        THEN [b1 EXCEPT !.b_state = BS_NEED_CKSUM]
                        ELSE [b1 EXCEPT !.b_state = BS_NEED_DATA,
                                        !.b_data = Zeros(b1.b_length + 1)]
         IN IF bad THEN RetSay(b1, 1, <<Printed("badlen", 0, <<>>)>>)
            ELSE Ret(IncNbit(b2), 0)
    ELSE Ret(IncNbit(b), 0)

\* malloc(cb->b_length+1) is taken to succeed; the buffer is zero filled.
NeedLength(b) ==
    IF b.b_nbit = 8
    THEN LET b1 == [ClearByte(b) EXCEPT !.b_length = b.b_byte,
                                        !.b_cksum = AddCksum(b.b_cksum, b.b_byte)]
             b2 == IF b1.b_type = BT_NAME
                   THEN IF b1.b_length # NAMEBLOCKLEN
                        THEN [b1 EXCEPT !.b_state = BS_NEED_SYNCBYTE]
                        ELSE [b1 EXCEPT !.b_state = BS_NEED_NAME]
                   ELSE IF b1.b_type = BT_EOF
                        THEN IF b1.b_length # 0
                             THEN [b1 EXCEPT !.b_state = BS_NEED_SYNCBYTE]
                             ELSE [b1 EXCEPT !.b_state = BS_NEED_CKSUM]
                        ELSE [b1 EXCEPT !.b_state = BS_NEED_DATA,
                                        !.b_data = Zeros(b1.b_length + 1)]
             bad == b2.b_state = BS_NEED_SYNCBYTE
         IN RetSay(IncNbit(b2), 0,
                   IF bad THEN <<Printed("type", b1.b_type, <<>>),
                                 Printed("badlen", 0, <<>>)>>
                          ELSE <<>>)
    ELSE Ret(IncNbit(b), 0)

\* NeedName with the name filled from its last byte down.
NeedNameBackwards(b) ==
    IF b.b_nbit = 8
    THEN LET b1 == [b EXCEPT !.b_progname[PROGNAMELEN - b.b_progname_i] = b.b_byte,
                             !.b_progname_i = U8(@ + 1),
                             !.b_cksum = AddCksum(@, b.b_byte)]
             b2 == IF b1.b_progname_i = PROGNAMELEN
                   THEN [b1 EXCEPT !.b_state = BS_NEED_FILETYPE]
                   ELSE b1
         IN Ret(IncNbit(ClearByte(b2)), 0)
    ELSE Ret(IncNbit(b), 0)

NeedName(b) ==
    IF b.b_nbit = 8
    THEN LET b1 == [b EXCEPT !.b_progname[b.b_progname_i + 1] = b.b_byte,
                             !.b_progname_i = U8(@ + 1),
                             !.b_cksum = AddCksum(@, b.b_byte)]
             b2 == IF b1.b_progname_i = PROGNAMELEN
                   THEN [b1 EXCEPT !.b_state = BS_NEED_FILETYPE]
                   ELSE b1
         IN Ret(IncNbit(ClearByte(b2)), 0)
    ELSE Ret(IncNbit(b), 0)

NeedFileType(b) ==
    IF b.b_nbit = 8
    THEN Ret(IncNbit(ClearByte([b EXCEPT !.b_filetype = b.b_byte,
                                         !.b_cksum = AddCksum(@, b.b_byte),
                                         !.b_state = BS_NEED_ASCIIFLAG])), 0)
    ELSE Ret(IncNbit(b), 0)

NeedAsciiFlag(b) ==
    IF b.b_nbit = 8
    THEN Ret(IncNbit(ClearByte([b EXCEPT !.b_asciiflag = b.b_byte,
                                         !.b_cksum = AddCksum(@, b.b_byte),
                                         !.b_state = BS_NEED_GAPFLAG])), 0)
    ELSE Ret(IncNbit(b), 0)

NeedGapFlag(b) ==
    IF b.b_nbit = 8
    THEN Ret(IncNbit(ClearByte([b EXCEPT !.b_gapflag = b.b_byte,
                                         !.b_cksum = AddCksum(@, b.b_byte),
                                         !.b_state = BS_NEED_STARTADDR])), 0)
    ELSE Ret(IncNbit(b), 0)

NeedStartAddr(b) ==
    IF b.b_nbit = 8
    THEN LET b1 == [b EXCEPT !.b_mlstart[b.b_mlstart_i + 1] = b.b_byte,
                             !.b_mlstart_i = U8(@ + 1),
                             !.b_cksum = AddCksum(@, b.b_byte)]
             b2 == IF b1.b_mlstart_i = MLSTARTLEN
                   THEN [b1 EXCEPT !.b_state = BS_NEED_LOADADDR]
                   ELSE b1
         IN Ret(IncNbit(ClearByte(b2)), 0)
    ELSE Ret(IncNbit(b), 0)

NeedLoadAddr(b) ==
    IF b.b_nbit = 8
    THEN LET b1 == [b EXCEPT !.b_mlload[b.b_mlload_i + 1] = b.b_byte,
                             !.b_mlload_i = U8(@ + 1),
                             !.b_cksum = AddCksum(@, b.b_byte),
                             !.b_length = U8(@ + 255)]
             b2 == IF b1.b_mlload_i = MLLOADLEN
                   THEN [b1 EXCEPT !.b_state = BS_NEED_CKSUM]
                   ELSE b1
         IN Ret(IncNbit(ClearByte(b2)), 0)
    ELSE Ret(IncNbit(b), 0)

\* NeedData with the index incremented before the store.
NeedDataPreInc(b) ==
    IF b.b_nbit = 8
    THEN LET inb == b.b_data_i + 1 < Len(b.b_data)
             b1 == [b EXCEPT !.b_data = IF inb
                                        THEN [@ EXCEPT ![b.b_data_i + 2] = b.b_byte]
                                        ELSE @,
                             !.b_data_i = U8(@ + 1),
                             !.b_cksum = AddCksum(@, b.b_byte)]
             b2 == IF b1.b_length = b1.b_data_i
                   THEN [b1 EXCEPT !.b_state = BS_NEED_CKSUM]
                   ELSE b1
         IN [cb |-> IncNbit(ClearByte(b2)), rc |-> 0, ub |-> ~inb, out |-> <<>>]
    ELSE Ret(IncNbit(b), 0)

\* cb->b_data[cb->b_data_i++] = cb->b_byte: the buffer holds b_length+1
\* bytes at the time it is allocated; a store at or past its end is a heap
\* overflow, reported in the ub field with the block otherwise as the
\* in-bounds code leaves it.
NeedData(b) ==
    IF b.b_nbit = 8
    THEN LET inb == b.b_data_i < Len(b.b_data)
             b1 == [b EXCEPT !.b_data = IF inb
                                        THEN [@ EXCEPT ![b.b_data_i + 1] = b.b_byte]
                                        ELSE @,
                             !.b_data_i = U8(@ + 1),
                             !.b_cksum = AddCksum(@, b.b_byte)]
             b2 == IF b1.b_length = b1.b_data_i
                   THEN [b1 EXCEPT !.b_state = BS_NEED_CKSUM]
                   ELSE b1
         IN [cb |-> IncNbit(ClearByte(b2)), rc |-> 0, ub |-> ~inb, out |-> <<>>]
    ELSE Ret(IncNbit(b), 0)

\* NeedCksum with the comparison left out.
NeedCksumLax(b) ==
    IF b.b_nbit = 8
    THEN Ret(IncNbit(ClearByte([b EXCEPT !.b_state = BS_NEED_LEADBYTE])), 0)
    ELSE Ret(IncNbit(b), 0)

\* A mismatch returns 1 at once: the block is left as it was.
NeedCksum(b) ==
    IF b.b_nbit = 8
    THEN IF b.b_byte # b.b_cksum
         THEN RetSay(b, 1, <<Printed("cksum", 0, <<>>)>>)
         ELSE Ret(IncNbit(ClearByte([b EXCEPT !.b_state = BS_NEED_LEADBYTE])), 0)
    ELSE Ret(IncNbit(b), 0)

NeedLeadByte(b) ==
    IF b.b_nbit = 8
    THEN Ret(IncNbit([ClearByte(b) EXCEPT !.b_state = BS_DONE]), 0)
    ELSE Ret(IncNbit(b), 0)

process_bit(b) ==
    CASE b.b_state = BS_NEED_SYNCBYTE  -> NeedSyncByte(b)
      [] b.b_state = BS_NEED_BLOCKTYPE -> NeedBlockType(b)
      [] b.b_state = BS_NEED_LENGTH    -> NeedLength(b)
      [] b.b_state = BS_NEED_NAME      -> NeedName(b)
      [] b.b_state = BS_NEED_FILETYPE  -> NeedFileType(b)
      [] b.b_state = BS_NEED_ASCIIFLAG -> NeedAsciiFlag(b)
      [] b.b_state = BS_NEED_GAPFLAG   -> NeedGapFlag(b)
      [] b.b_state = BS_NEED_STARTADDR -> NeedStartAddr(b)
      [] b.b_state = BS_NEED_LOADADDR  -> NeedLoadAddr(b)
      [] b.b_state = BS_NEED_DATA      -> NeedData(b)
      [] b.b_state = BS_NEED_CKSUM     -> NeedCksum(b)
      [] b.b_state = BS_NEED_LEADBYTE  -> NeedLeadByte(b)
      [] OTHER                         -> RetSay(b, 1, <<Printed("badstate", 0, <<>>)>>)

-----------------------------------------------------------------------------
(* Token tables and asciidump                                              *)

token ==
    << "FOR", "GO", "REM", "'",
       "ELSE", "IF", "DATA", "PRINT",
       "ON", "INPUT", "END", "NEXT",
       "DIM", "READ", "RUN", "RESTORE",
       "RETURN", "STOP", "POKE", "CONT",
       "LIST", "CLEAR", "NEW", "CLOAD",
       "CSAVE", "OPEN", "CLOSE", "LLIST",
       "SET", "RESET", "CLS", "MOTOR",
       "SOUND", "AUDIO", "EXEC", "SKIPF",
       "TAB(", "TO", "SUB", "THEN",
       "NOT", "STEP", "OFF", "+",
       "-", "*", "/", "^",
       "AND", "OR", ">", "=",
       "<", "DEL", "EDIT", "TRON",
       "TROFF", "DEF", "LET", "LINE",
       "PCLS", "PSET", "PRESET", "SCREEN",
       "PCLEAR", "COLOR", "CIRCLE", "PAINT",
       "GET", "PUT", "DRAW", "PCOPY",
       "PMODE", "PLAY", "DLOAD", "RENUM",
       "FN", "USING",
       "DIR", "DRIVE",
       "FIELD", "FILES", "KILL", "LOAD",
       "LSET", "MERGE", "RENAME", "RSET",
       "SAVE", "WRITE", "VERIFY", "UNLOAD",
       "DSKINI", "BACKUP", "COPY", "DSKI$",
       "DSKO$" >>

ftoken ==
    << "SGN", "INT", "ABS", "USR",
       "RND", "SIN", "PEEK", "LEN",
       "STR$", "VAL", "ASC", "CHR$",
       "EOF", "JOYSTK", "LEFT$", "RIGHT$",
       "MID$", "POINT", "INKEY$", "MEM",
       "ATN", "COS", "TAN", "EXP",
       "FIX", "LOG", "POS", "SQR",
       "HEX$", "VARPTR", "INSTR", "TIMER",
       "PPOINT", "STRING$",
       "CVN", "FREE",
       "LOC", "LOF", "MKN$" >>

\* What goes to stdout is kept as a sequence of pieces: PutC(c) is the one
\* byte c written by printf("%c"), PutS(s) the characters of the string s.
PutC(c) == [c |-> c, s |-> ""]

PutS(s) == [c |-> -1, s |-> s]

HexDigit ==
    << "0", "1", "2", "3", "4", "5", "6", "7",
       "8", "9", "A", "B", "C", "D", "E", "F" >>

\* isprint() in the C locale
isprint(c) == c >= 32 /\ c <= 126

\* printf("\\x%02X", c)
Hex02X(c) == "\\x" \o HexDigit[(c \div 16) + 1] \o HexDigit[(c % 16) + 1]

RECURSIVE Dec(_)
\* printf("%d", n) for n >= 0
Dec(n) == IF n < 10 THEN HexDigit[n + 1]
          ELSE Dec(n \div 10) \o HexDigit[(n % 10) + 1]

RECURSIVE PadLeft(_, _)
PadLeft(s, w) == IF Len(s) >= w THEN s ELSE PadLeft(" " \o s, w)

\* printf("%5d ", lineno)
Fmt5d(n) == PadLeft(Dec(n), 5) \o " "

\* What asciidump prints for the byte at data[i] (0-based i), and how many
\* bytes it uses up.  data holds the bytes the caller stored in the buffer;
\* a byte read at or past Len(data) was not stored for this line.  ub marks
\* a read of ftoken outside its rows, or of a byte that was not stored.
DumpByte(data, i) ==
    LET c == data[i + 1] IN
    IF isprint(c)
    THEN [text |-> <<PutC(c)>>, used |-> 1, ub |-> FALSE]
    ELSE IF c > 127 /\ c < 224
         THEN [text |-> <<PutS(token[c - 128 + 1])>>, used |-> 1, ub |-> FALSE]
         ELSE IF c = 255
              THEN IF i + 1 < Len(data) /\ data[i + 2] - 128 \in 0..(Len(ftoken) - 1)
                   THEN [text |-> <<PutS(ftoken[data[i + 2] - 128 + 1])>>,
                         used |-> 2, ub |-> FALSE]
                   ELSE [text |-> <<>>, used |-> 2, ub |-> TRUE]
              ELSE IF c # 0
                   THEN [text |-> <<PutS(Hex02X(c))>>, used |-> 1, ub |-> FALSE]
                   ELSE [text |-> <<>>, used |-> 1, ub |-> FALSE]

\* One iteration of the for loop of asciidump, with s.i < size: what was
\* printed so far, the index after the "++i", and whether a read was
\* undefined.
DumpStep(data, size, s) ==
    LET d == DumpByte(data, s.i)
    IN IF d.ub THEN [s EXCEPT !.ub = TRUE]
       ELSE [i |-> s.i + d.used, text |-> s.text \o d.text, ub |-> FALSE]

RECURSIVE DumpRun(_, _, _, _)
\* At most n iterations of the for loop of asciidump from s on; the loop is
\* left when "i < size" is false.  (The iterations are taken half by half
\* so that the evaluation stays shallow.)
DumpRun(data, size, s, n) ==
    IF s.ub \/ s.i >= size THEN s
    ELSE IF n <= 1 THEN DumpStep(data, size, s)
    ELSE LET s1 == DumpRun(data, size, s, n \div 2)
         IN DumpRun(data, size, s1, n - (n \div 2))

\* the for loop of asciidump from index i on
DumpFrom(data, size, i) ==
    LET s == DumpRun(data, size, [i |-> i, text |-> <<>>, ub |-> FALSE], size)
    IN [text |-> s.text, ub |-> s.ub]

asciidump(data, size) == DumpFrom(data, size, 0)

-----------------------------------------------------------------------------
(* hexdump                                                                 *)

LowHexDigit ==
    << "0", "1", "2", "3", "4", "5", "6", "7",
       "8", "9", "a", "b", "c", "d", "e", "f" >>

RECURSIVE LowHex(_)
\* printf("%x", n) for n >= 0
LowHex(n) == IF n < 16 THEN LowHexDigit[n + 1]
             ELSE LowHex(n \div 16) \o LowHexDigit[(n % 16) + 1]

RECURSIVE PadZero(_, _)
PadZero(s, w) == IF Len(s) >= w THEN s ELSE PadZero("0" \o s, w)

\* printf("0x%02x", n)
Fmt02x(n) == "0x" \o PadZero(LowHex(n), 2)

\* sprintf(offset, "%08x ", n)
Fmt08x(n) == PadZero(LowHex(n), 8) \o " "

\* sprintf(hexch, "%02X ", c) for a byte c
Fmt02X(c) == HexDigit[(c \div 16) + 1] \o HexDigit[(c % 16) + 1] \o " "

\* Bytes per line, and the separator between the hex and the ASCII part.
BPL == 16

SEPSTR == " |  "

\* The number of lines of hexdump: "(size / bpl) + ((size % bpl)?1:0)".
HexLines(size) == (size \div BPL) + (IF size % BPL # 0 THEN 1 ELSE 0)

\* lb of line l (from 0): bpl, and on the last line size % bpl when that
\* is not 0.
HexLineBytes(size, l) ==
    IF l = HexLines(size) - 1 /\ size % BPL # 0 THEN size % BPL ELSE BPL

\* line[] of line l of hexdump: the bytes as "%02X ", the separator
\* right-aligned in (bpl - lb) * 3 + 4 columns, and the bytes again, each
\* as itself when isprint() and as '.' otherwise.
HexLine(data, size, l) ==
    LET lb == HexLineBytes(size, l)
        at(k) == data[l * BPL + k]
    IN  [k \in 1..lb |-> PutS(Fmt02X(at(k)))]
            \o <<PutS(PadLeft(SEPSTR, (BPL - lb) * 3 + Len(SEPSTR)))>>
            \o [k \in 1..lb |-> IF isprint(at(k)) THEN PutC(at(k)) ELSE PutC(46)]

RECURSIVE HexRun(_, _, _, _, _, _)
\* The for loop of hexdump from line l on, with lline the last line
\* printed, repeat the number of lines equal to it since, and o printed so
\* far; and the "if (repeat)" after the loop.
HexRun(data, size, l, lline, repeat, o) ==
    IF l >= HexLines(size)
    THEN IF repeat # 0 THEN Append(o, Printed("repeated", repeat, <<>>)) ELSE o
    ELSE LET line == HexLine(data, size, l)
         IN IF line # lline
            THEN HexRun(data, size, l + 1, line, 0,
                        (IF repeat # 0
                         THEN Append(o, Printed("lastrepeated", repeat, <<>>))
                         ELSE o)
                            \o <<Printed("hexdump", l * BPL,
                                         <<PutS(Fmt08x(l * BPL))>> \o line)>>)
            ELSE HexRun(data, size, l + 1, lline, repeat + 1, o)

\* hexdump(data, size): what it prints, and whether it reads a byte that
\* data does not have.
hexdump(data, size) ==
    IF size > Len(data) THEN [out |-> <<>>, ub |-> TRUE]
    ELSE [out |-> HexRun(data, size, 0, <<>>, 0, <<>>), ub |-> FALSE]

-----------------------------------------------------------------------------
(* print_prog                                                              *)

\* cb->b_data[i] with cb = p.  -1: the read is undefined (p is NULL, b_data
\* is NULL, or i is past the b_length+1 bytes that were allocated).
ReadData(h, p, i) ==
    IF p = NULL THEN -1
    ELSE IF i < Len(h[p].b_data) THEN h[p].b_data[i + 1] ELSE -1

\* The walk's cursor: current block, offset in it, block number counter.
Cursor(p, i, blkn) == [cb |-> p, i |-> i, blkn |-> blkn, st |-> "ok"]

\* NextByte without the jump to the next block.
NextByteNoSpan(h, c) ==
    IF c.st # "ok" THEN c
    ELSE IF c.cb = NULL THEN [c EXCEPT !.st = "ub"]
    ELSE [c EXCEPT !.i = @ + 1]

\* "i++; if (i == cb->b_length) { i = 0; cb = cb->b_next; blkn++; }"
\* With cb NULL the test dereferences a null pointer.
NextByte(h, c) ==
    IF c.st # "ok" THEN c
    ELSE IF c.cb = NULL THEN [c EXCEPT !.st = "ub"]
    ELSE IF c.i + 1 = h[c.cb].b_length
         THEN [c EXCEPT !.cb = h[c.cb].b_next, !.i = 0, !.blkn = U8(@ + 1)]
         ELSE [c EXCEPT !.i = @ + 1]

RECURSIVE SkipToData(_, _)
\* "while (cb && (cb->b_type != BT_DATA)) cb = cb->b_next;"
SkipToData(h, p) ==
    IF p # NULL /\ h[p].b_type # BT_DATA THEN SkipToData(h, h[p].b_next) ELSE p

\* EndOfProgram with three bytes of the block left instead of two.
EndOfProgramThree(h, c) ==
    IF h[c.cb].b_length - c.i # 3 THEN "no"
    ELSE LET r0 == ReadData(h, c.cb, c.i)
             r1 == ReadData(h, c.cb, c.i + 1)
             r2 == ReadData(h, c.cb, c.i + 2)
         IN IF r0 = -1 THEN "ub"
            ELSE IF r0 # 0 THEN "no"
            ELSE IF r1 = -1 THEN "ub"
            ELSE IF r1 # 0 THEN "no"
            ELSE IF r2 = -1 THEN "ub"
            ELSE IF r2 # 0 THEN "no" ELSE "end"

\* The test that ends the walk: "end", "no", or "ub" when one of the reads
\* it makes is undefined.  The && operators read left to right and stop at
\* the first false operand.
EndOfProgram(h, c) ==
    IF h[c.cb].b_length - c.i # 2 THEN "no"
    ELSE LET r0 == ReadData(h, c.cb, c.i)
             r1 == ReadData(h, c.cb, c.i + 1)
             r2 == ReadData(h, c.cb, c.i + 2)
         IN IF r0 = -1 THEN "ub"
            ELSE IF r0 # 0 THEN "no"
            ELSE IF r1 = -1 THEN "ub"
            ELSE IF r1 # 0 THEN "no"
            ELSE IF r2 = -1 THEN "ub"
            ELSE IF r2 # 0 THEN "no" ELSE "end"

\* GoodStart with only the tag equal to the counter taken.
GoodStartExact(tag, blkn) == tag = blkn

\* "(cb->b_data[i] != blkn) && (cb->b_data[i] != blkn+1)" is false;
\* blkn+1 is an int and is not reduced modulo 256.
GoodStart(tag, blkn) == tag = blkn \/ tag = blkn + 1

\* "while (cb->b_data[i] != 0x00)" is left, or the run has ended in the
\* loop.
CopyDone(h, s) == s.c.st # "ok" \/ ReadData(h, s.c.cb, s.c.i) = 0

\* One iteration of the loop that copies a line: "line[j++] =
\* cb->b_data[i]; llen++;", the move to the next byte, and then the test
\* "if (j>=LINELEN)".  s.line is line[0..j-1].
CopyStep(h, s) ==
    LET v == ReadData(h, s.c.cb, s.c.i) IN
    IF v = -1 THEN [c |-> [s.c EXCEPT !.st = "ub"], line |-> s.line]
    ELSE LET c1 == NextByte(h, s.c)
             line1 == Append(s.line, v)
         IN IF Len(line1) >= LINELEN
            THEN [c |-> [c1 EXCEPT !.st = "big"], line |-> line1]
            ELSE [c |-> c1, line |-> line1]

RECURSIVE CopyRun(_, _, _)
\* At most n iterations of the loop that copies a line, from s on.  (The
\* iterations are taken half by half so that the evaluation stays
\* shallow.)
CopyRun(h, s, n) ==
    IF CopyDone(h, s) THEN s
    ELSE IF n <= 1 THEN CopyStep(h, s)
    ELSE LET s1 == CopyRun(h, s, n \div 2)
         IN CopyRun(h, s1, n - (n \div 2))

\* The loop that copies the bytes up to the 0x00 into line[]; it is left
\* after LINELEN iterations at the latest.
CopyLine(h, c, line) == CopyRun(h, [c |-> c, line |-> line], LINELEN)

\* "%8s" of b_progname: the bytes before the first NUL, padded on the left.
RECURSIVE CString(_, _)
CString(a, k) == IF k > Len(a) \/ a[k] = 0 THEN <<>>
                 ELSE <<PutC(a[k])>> \o CString(a, k + 1)

ProgramHeader(b) ==
    LET name == CString(b.b_progname, 1)
    IN Printed("program", 0,
               [k \in 1..(PROGNAMELEN - Len(name)) |-> PutC(32)] \o name)

\* "bad start of line 0x%02x != 0x%02x 0x%02x" with cb->b_data[i], blkn
\* and i, and then hexdump(cb->b_data, cb->b_length).
BadStart(h, c, tag) ==
    LET d == hexdump(h[c.cb].b_data, h[c.cb].b_length)
    IN [out |-> <<Printed("badstart", tag,
                          <<PutS(Fmt02x(tag)), PutS(Fmt02x(c.blkn)),
                            PutS(Fmt02x(c.i))>>)>> \o d.out,
        ub |-> d.ub]

RECURSIVE Lines(_, _, _)
\* The "while(cb)" loop of print_prog from its head, with cursor c and o
\* printed so far.
Lines(h, c, o) ==
    IF c.cb = NULL THEN [out |-> o, status |-> "return"]
    ELSE
    LET e == EndOfProgram(h, c)
        tag == ReadData(h, c.cb, c.i)
        c1 == NextByte(h, c)
        c2 == NextByte(h, c1)
        hi == ReadData(h, c2.cb, c2.i)
        c3 == NextByte(h, c2)
        lo == ReadData(h, c3.cb, c3.i)
        c4 == NextByte(h, c3)
        cp == CopyLine(h, c4, <<>>)
        c6 == NextByte(h, cp.c)
        lineno == hi * 256 + lo
        d == asciidump(cp.line, Len(cp.line))
    IN  IF e = "end" THEN [out |-> o, status |-> "return"]
        ELSE IF e = "ub" \/ tag = -1 THEN [out |-> o, status |-> "ub"]
        ELSE IF ~GoodStart(tag, c.blkn)
             THEN [out |-> o \o BadStart(h, c, tag).out,
                   status |-> IF BadStart(h, c, tag).ub THEN "ub" ELSE "exit1"]
        ELSE IF c2.st # "ok" \/ hi = -1 \/ lo = -1 \/ c4.st # "ok"
             THEN [out |-> o, status |-> "ub"]
        ELSE IF cp.c.st = "ub" THEN [out |-> o, status |-> "ub"]
        ELSE IF cp.c.st = "big"
             THEN [out |-> Append(o, Printed("toobig", Len(cp.line), <<>>)),
                   status |-> "exit1"]
        ELSE IF c6.st # "ok" \/ d.ub THEN [out |-> o, status |-> "ub"]
        ELSE Lines(h, c6, Append(o, Printed("line", lineno,
                                            <<PutS(Fmt5d(lineno))>> \o d.text)))

\* print_prog(cb) on the heap h: what it prints and how it ends: "return",
\* "exit1" (it calls exit(1)) or "ub" (it reads through a null pointer or
\* outside a buffer).
print_prog(h, p) ==
    LET o == IF p # NULL /\ h[p].b_state = BS_DONE /\ h[p].b_type = BT_NAME
             THEN <<ProgramHeader(h[p])>> ELSE <<>>
        d == SkipToData(h, p)
        blkn == ReadData(h, d, 0)
    IN  IF d = NULL THEN [out |-> o, status |-> "return"]
        ELSE IF blkn = -1 THEN [out |-> o, status |-> "ub"]
        ELSE Lines(h, Cursor(d, 0, blkn), o)

-----------------------------------------------------------------------------
(* main: the cycle classifier                                              *)

\* The if / else if / else on count: 1 for a one, 0 for a zero, -1 for a
\* cycle that is neither.
Classify(n, ol, oh, zl, zh) ==
    IF n >= ol /\ n <= oh THEN 1
    ELSE IF n >= zl /\ n <= zh THEN 0
    ELSE -1

\* What the classification does to cb->b_byte.
ShiftBit(b, bit) ==
    IF bit = 1 THEN [b EXCEPT !.b_byte = ShiftInOne(@)]
    ELSE IF bit = 0 THEN [b EXCEPT !.b_byte = ShiftInZero(@)]
    ELSE b

\* "(wav.data[j] < 0) && (wav.data[j-1] >= 0)" with j = k on the samples
\* w (w[k + 1] is wav.data[k]).
FallingCrossing(w, k) == w[k + 1] < 0 /\ w[k] >= 0

\* The recording with the samples w.  main reads wav.data in the test
\* for a falling crossing only (d_debug is 0), so the samples are kept as
\* the set of the indices at which that test holds.
Recording(w) ==
    [samples |-> Len(w),
     falls |-> {k \in 1..(Len(w) - 1) : FallingCrossing(w, k)}]

-----------------------------------------------------------------------------
(* main: the sample loop                                                   *)

\* The addresses of the list from p on, following b_next.
RECURSIVE Chain(_, _)
Chain(h, p) == IF p = NULL THEN <<>> ELSE <<p>> \o Chain(h, h[p].b_next)

\* FreeList that starts at the block after the root.
FreeListAfterRoot(h, p) == {Chain(h, p)[k] : k \in 2..Len(Chain(h, p))}

\* The addresses passed to free() by "pb = blocks; while (pb) { cb =
\* pb->b_next; free(pb->b_data); free(pb); pb = cb; }" with blocks = p.
FreeList(h, p) == {Chain(h, p)[k] : k \in 1..Len(Chain(h, p))}

\* Link that leaves the last block as it is.
LinkNever(h, p, a) == h

\* "if (pb) pb->b_next = cb;" with pb = p and the new block at a.
Link(h, p, a) == IF p # NULL THEN [h EXCEPT ![p].b_next = a] ELSE h

\* How a run that did something undefined may end: killed by a signal, or
\* going on with values the source does not determine.
UBOutcomes == {"crash", "undefined"}

\* One entry of the history of print_prog invocations: from where in main
\* ("eof": a completed End of File block, "end": after the loop), on which
\* root, the addresses of the list it was given, whether the last block of
\* that list is a completed End of File block, and how the call ended.
Call(at, h, p, st) ==
    LET c == Chain(h, p)
    IN [at |-> at, root |-> p, chain |-> c,
        sealed |-> c # <<>> /\ h[c[Len(c)]].b_state = BS_DONE
                            /\ h[c[Len(c)]].b_type = BT_EOF,
        status |-> st]

\* One entry of the history of classifications: the cycle length counted,
\* the class it got, and cb->b_byte before and after the shift.
Classified(n, bit, was, is) == [n |-> n, bit |-> bit, was |-> was, is |-> is]

\* One iteration of "for(int j = 1; j < wav.samples; j++)".
Sample ==
    /\ status = "run"
    /\ j < wav.samples
    /\ LET alloc == cb = NULL
           a == Len(heap) + 1
           \* if (!cb) { malloc, memset, link }
           h0 == IF alloc THEN Append(heap, NewBlock) ELSE heap
           h1 == IF alloc THEN Link(h0, pb, a) ELSE h0
           cb1 == IF alloc THEN a ELSE cb
           blocks1 == IF alloc /\ blocks = NULL THEN a ELSE blocks
           pb1 == IF alloc THEN a ELSE pb
           nblocks1 == IF alloc THEN nblocks + 1 ELSE nblocks
           bit == Classify(count, o_one_low, O_one_high, z_zero_low, Z_zero_high)
           r == process_bit(ShiftBit(h1[cb1], bit))
           h2 == [h1 EXCEPT ![cb1] = r.cb]
           done == r.cb.b_state = BS_DONE
           eof == done /\ r.cb.b_type = BT_EOF
           pp == print_prog(h2, blocks1)
       IN  IF j \notin wav.falls
           THEN /\ heap' = h1 /\ cb' = cb1 /\ blocks' = blocks1 /\ pb' = pb1
                /\ nblocks' = nblocks1
                /\ count' = count + 1
                /\ j' = j + 1
                /\ UNCHANGED <<freed, out, status, calls, cls>>
           ELSE /\ heap' = h2
                /\ cls' = Classified(count, bit, h1[cb1].b_byte,
                                     ShiftBit(h1[cb1], bit).b_byte)
                /\ nblocks' = nblocks1
                /\ IF r.ub
                   THEN /\ status' \in UBOutcomes
                        /\ cb' = cb1 /\ blocks' = blocks1 /\ pb' = pb1
                        /\ out' = out \o r.out
                        /\ UNCHANGED <<freed, calls, count, j>>
                   ELSE IF r.rc # 0
                   THEN \* exit(1)
                        /\ status' = "exit1"
                        /\ cb' = cb1 /\ blocks' = blocks1 /\ pb' = pb1
                        /\ out' = out \o r.out
                        /\ UNCHANGED <<freed, calls, count, j>>
                   ELSE IF eof
                   THEN /\ calls' = Append(calls, Call("eof", h2, blocks1, pp.status))
                        /\ out' = out \o r.out \o pp.out
                        /\ IF pp.status = "return"
                           THEN \* free the list, blocks = pb = NULL, cb = NULL
                                /\ freed' = freed \cup FreeList(h2, blocks1)
                                /\ blocks' = NULL /\ pb' = NULL /\ cb' = NULL
                                /\ count' = 1
                                /\ j' = j + 1
                                /\ status' = "run"
                           ELSE /\ IF pp.status = "exit1"
                                   THEN status' = "exit1"
                                   ELSE status' \in UBOutcomes
                                /\ cb' = cb1 /\ blocks' = blocks1 /\ pb' = pb1
                                /\ UNCHANGED <<freed, count, j>>
                   ELSE /\ cb' = IF done THEN NULL ELSE cb1
                        /\ blocks' = blocks1 /\ pb' = pb1
                        /\ count' = 1
                        /\ j' = j + 1
                        /\ out' = out \o r.out
                        /\ UNCHANGED <<freed, status, calls>>
    /\ UNCHANGED <<wav, o_one_low, O_one_high, z_zero_low, Z_zero_high, scen>>

\* After the loop: "print_prog(blocks); ... exit(0);" (v_verbose is 0).
Finish ==
    /\ status = "run"
    /\ j >= wav.samples
    /\ LET pp == print_prog(heap, blocks)
       IN /\ calls' = Append(calls, Call("end", heap, blocks, pp.status))
          /\ out' = out \o pp.out
          /\ IF pp.status = "return" THEN status' = "exit0"
             ELSE IF pp.status = "exit1" THEN status' = "exit1"
             ELSE status' \in UBOutcomes
    /\ UNCHANGED <<wav, j, count, heap, freed, blocks, cb, pb, nblocks,
                   o_one_low, O_one_high, z_zero_low, Z_zero_high, cls, scen>>

-----------------------------------------------------------------------------
(* The recordings the runs are started on                                  *)

\* Longest Data payload of the single-frame recordings.
MaxLen == 2

\* The payload bytes of the single-frame recordings: 0x00, 0x41, 0xFF.
PayloadBytes == {0, 65, 255}

\* The payload bytes of the recordings with an inverted bit: 0x00, 0xFF.
FlipBytes == {0, 255}

\* The thresholds of the runs: the initial values of the four globals (no
\* option is given).
RunOptions == [ol |-> OL, oh |-> OH, zl |-> ZL, zh |-> ZH]

RECURSIVE SumRange(_, _, _)
\* a[lo] + ... + a[hi]
SumRange(a, lo, hi) ==
    IF lo > hi THEN 0
    ELSE IF lo = hi THEN a[lo]
    ELSE LET mid == (lo + hi) \div 2
         IN SumRange(a, lo, mid) + SumRange(a, mid + 1, hi)

SumBytes(a, k) == SumRange(a, k, Len(a))

\* The checksum byte the tape format gives a block: type + length + data.
TapeCksum(type, payload) == U8(type + Len(payload) + SumBytes(payload, 1))

\* The bytes of a block on tape, from its sync byte to its trailing leader.
Frame(f) ==
    <<SYNCBYTE, f.type, Len(f.payload)>> \o f.payload
        \o <<TapeCksum(f.type, f.payload), LEADERBYTE>>

DataF(p) == [type |-> BT_DATA, payload |-> p]

EofF == [type |-> BT_EOF, payload |-> <<>>]

\* A Namefile block: "AB      ", BASIC, binary, gap flag 0, two addresses.
NameF == [type |-> BT_NAME,
          payload |-> <<65, 66, 32, 32, 32, 32, 32, 32, 0, 0, 0, 18, 52, 86, 120>>]

NoF == [type |-> -1, payload |-> <<>>]

\* Bit k (0 the least significant) of byte b.
BitOf(b, k) == (b \div (2 ^ k)) % 2

\* The bits of the bytes as they are on tape: each byte low bit first.
TapeBits(bytes) ==
    [n \in 1..(8 * Len(bytes)) |-> BitOf(bytes[((n - 1) \div 8) + 1], (n - 1) % 8)]

\* bits with one cycle that is neither a one nor a zero (-1) put in after
\* the first at bits; at = -1 puts none in.
WithNoise(bits, at) ==
    IF at < 0 THEN bits
    ELSE SubSeq(bits, 1, at) \o <<-1>> \o SubSeq(bits, at + 1, Len(bits))

\* The length in samples of the cycle that carries bit: the shortest cycle
\* that is a one, the shortest that is a zero and not a one, and for noise
\* (-1) a cycle of two samples, shorter than any one.  A bit below -1
\* stands for a cycle of that many samples.
CycleLen(bit, o) ==
    IF bit = 1 THEN o.ol ELSE IF bit = 0 THEN o.oh + 1
    ELSE IF bit = -1 THEN 2 ELSE 0 - bit

\* The samples of one cycle of n samples, ending in its falling crossing.
CycleSamples(n) == [k \in 1..n |-> IF k = n THEN -1 ELSE IF k = 1 THEN 0 ELSE 1]

RECURSIVE WaveOf(_, _, _, _)
\* The samples of the cycles of bits[lo..hi], one cycle after the other.
WaveOf(bits, lo, hi, o) ==
    IF lo > hi THEN <<>>
    ELSE IF lo = hi THEN CycleSamples(CycleLen(bits[lo], o))
    ELSE LET mid == (lo + hi) \div 2
         IN WaveOf(bits, lo, mid, o) \o WaveOf(bits, mid + 1, hi, o)

\* lead samples at or above zero, a first falling crossing, then the cycles.
Wave(lead, bits, o) ==
    [k \in 1..lead |-> 0] \o <<-1>> \o WaveOf(bits, 1, Len(bits), o)

\* byte b with bit k inverted
FlipBit(b, k) == IF BitOf(b, k) = 1 THEN b - 2 ^ k ELSE b + 2 ^ k

Scenario(kind, a, b, bytes, at, x) ==
    [kind |-> kind, a |-> a, b |-> b, bytes |-> bytes, at |-> at, x |-> x]

DataPayloads == UNION {[1..n -> PayloadBytes] : n \in 1..MaxLen}

\* One Data block, as written.
CleanTapes ==
    {Scenario("clean", DataF(p), NoF, Frame(DataF(p)), -1, -1) : p \in DataPayloads}

\* One Data block with bit x of payload byte at inverted and the checksum
\* byte as written for the original payload.
FlipTapes ==
    UNION {{Scenario("flip", DataF(p), NoF,
                     [Frame(DataF(p)) EXCEPT ![3 + k] = FlipBit(@, x)], k, x) :
              k \in 1..Len(p), x \in 0..7} :
           p \in UNION {[1..n -> FlipBytes] : n \in 1..MaxLen}}

\* One Data block with one noise cycle put in after its first at bits.
NoiseTapes ==
    {Scenario("noise", DataF(<<65>>), NoF, Frame(DataF(<<65>>)), n, -1) :
        n \in 0..(8 * Len(Frame(DataF(<<65>>))))}

ResyncFrames == {DataF(<<255>>), EofF, NameF}

\* Bytes that are no block type.
BadTypes == {2, 60, 85, 254}

\* Blocks a and b with a sync byte and a byte that is no block type between.
ResyncTapes ==
    {Scenario("resync", a, b, Frame(a) \o <<SYNCBYTE, x>> \o Frame(b), -1, x) :
        a \in ResyncFrames, b \in ResyncFrames, x \in BadTypes}

\* Length bytes that a Namefile block and an End of File block may not have.
BadNameLens == {0, 14, 16}

BadEofLens == {1, 15, 255}

\* A sync byte, the type of a Namefile or End of File block and a length
\* byte that this type may not have, and then block b.
BadLenTapes ==
    {Scenario("badlen", [type |-> t[1], payload |-> <<>>], b,
              <<SYNCBYTE, t[1], t[2]>> \o Frame(b), -1, t[2]) :
        t \in ({BT_NAME} \X BadNameLens) \cup ({BT_EOF} \X BadEofLens),
        b \in ResyncFrames}

\* Cycle lengths at the limits of the built-in ranges.
LimitCycles == {17, 18, 31, 32, 1000, 1001}

\* Numbers of samples before the first falling crossing.
Leads == {1, 19, 33}

\* at samples at or above zero, the first falling crossing, and one cycle
\* of x samples.
CycleTapes ==
    {Scenario("cycle", NoF, NoF, <<>>, l, m) : l \in Leads, m \in LimitCycles}

\* A Namefile block with a byte of its own in every field but the tail of
\* the name: the name 0xFE 0xFD and 0xFF six times, file type 0xFB, ASCII
\* flag 0xF7, gap flag 0xEF, start address 0xDFBF, load address 0x7FFC.
\* (Bytes with few zero bits make a short recording.)
Name2F == [type |-> BT_NAME,
           payload |-> <<254, 253, 255, 255, 255, 255, 255, 255,
                         251, 247, 239, 223, 191, 127, 252>>]

\* One Namefile block.
NameTapes == {Scenario("name", Name2F, NoF, Frame(Name2F), -1, -1)}

\* One Data block with the length byte 0.
EmptyTapes ==
    {Scenario("empty", DataF(<<>>), NoF, Frame(DataF(<<>>)), -1, -1)}

\* A program without lines (a Data block that holds only the two zero
\* bytes that end a program, and the End of File block) and then block b.
TwoTapes ==
    {Scenario("two", DataF(<<0, 0>>), b,
              Frame(DataF(<<0, 0>>)) \o Frame(EofF) \o Frame(b), -1, -1) :
        b \in {EofF, DataF(<<255>>)}}

\* The payload of a Data block that holds the one line "10 PRINT" and the
\* two zero bytes that end a program.
OneLine == <<30, 7, 0, 10, 135, 0, 0, 0>>

\* A program: Namefile block (x = 1) or none, a Data block, and the End of
\* File block (at = 1) or none.
ProgramTapes ==
    {Scenario("program", DataF(OneLine), NoF,
              (IF x = 1 THEN Frame(NameF) ELSE <<>>) \o Frame(DataF(OneLine))
                  \o (IF n = 1 THEN Frame(EofF) ELSE <<>>), n, x) :
        n \in {0, 1}, x \in {0, 1}}

\* One Data block on a recording that starts inside the sync byte: the
\* first two bits of the sync byte are not on the tape.
EarlyTapes ==
    {Scenario("early", DataF(<<65>>), NoF, Frame(DataF(<<65>>)), -1, -1)}

Scenarios == CleanTapes \cup FlipTapes \cup NoiseTapes \cup ResyncTapes
                 \cup ProgramTapes \cup BadLenTapes \cup CycleTapes
                 \cup TwoTapes \cup EmptyTapes \cup NameTapes
                 \cup EarlyTapes

\* The bits a scenario puts on tape.
ScenBits(sc) ==
    IF sc.kind = "noise" THEN WithNoise(TapeBits(sc.bytes), sc.at)
    ELSE IF sc.kind = "cycle" THEN <<0 - sc.x>>
    ELSE IF sc.kind = "early"
    THEN SubSeq(TapeBits(sc.bytes), 3, 8 * Len(sc.bytes))
    ELSE TapeBits(sc.bytes)

\* The number of samples a scenario puts before the first falling crossing.
ScenLead(sc) == IF sc.kind = "cycle" THEN sc.at ELSE 1

\* What one classified bit does to the current block: the shift in main
\* and the call of process_bit.
FeedBit(b, bit) == process_bit(ShiftBit(b, bit)).cb

RECURSIVE FeedBits(_, _, _)
\* The block after the bits bits[k..] went through it.  (The test on b1
\* only makes the evaluation of b1 happen before the next step.)
FeedBits(b, bits, k) ==
    IF k > Len(bits) THEN b
    ELSE LET b1 == FeedBit(b, bits[k])
         IN IF b1.b_nbit >= 0 THEN FeedBits(b1, bits, k + 1) ELSE b1

RECURSIVE FeedRange(_, _, _, _)
\* The block after the bits of bytes[lo..hi] went through it.
FeedRange(b, bytes, lo, hi) ==
    IF lo > hi THEN b
    ELSE IF lo = hi THEN FeedBits(b, TapeBits(<<bytes[lo]>>), 1)
    ELSE LET mid == (lo + hi) \div 2
             b1 == FeedRange(b, bytes, lo, mid)
         IN IF b1.b_nbit >= 0 THEN FeedRange(b1, bytes, mid + 1, hi) ELSE b1

\* The block after the bits of bytes[k..] went through it.
FeedBytes(b, bytes, k) == FeedRange(b, bytes, k, Len(bytes))

\* The block a freshly allocated block becomes on the bytes of frame f.
Decoded(f) == FeedBytes(NewBlock, Frame(f), 1)

-----------------------------------------------------------------------------
(* The run of main on a recording                                          *)

\* main's locals and the globals as the loop is entered.
Init ==
    /\ scen \in Scenarios
    /\ \E w \in {Wave(ScenLead(scen), ScenBits(scen), RunOptions)} :
          wav = Recording(w)
    /\ j = 1
    /\ count = 0
    /\ heap = <<>>
    /\ freed = {}
    /\ blocks = NULL /\ cb = NULL /\ pb = NULL
    /\ nblocks = 0
    /\ o_one_low = RunOptions.ol /\ O_one_high = RunOptions.oh
    /\ z_zero_low = RunOptions.zl /\ Z_zero_high = RunOptions.zh
    /\ out = <<>>
    /\ status = "run"
    /\ calls = <<>>
    /\ cls = Classified(-1, -1, 0, 0)

Next == Sample \/ Finish

Spec == Init /\ [][Next]_vars

-----------------------------------------------------------------------------
(* Properties of the run on a recording                                    *)

\* The run ended, or the loop has no sample left.
RunOver == status # "run" \/ j >= wav.samples

\* The addresses of the blocks that reached BS_DONE.
DoneBlocks == {a \in 1..Len(heap) : heap[a].b_state = BS_DONE}

\* The payload of a Data block: the first b_length bytes of its buffer.
Payload(b) == SubSeq(b.b_data, 1, b.b_length)

\* The states of the switch in which b_nbit counts the bits of a byte.
CountsBits(st) == st # BS_NEED_SYNCBYTE /\ st # BS_DONE

\* The fields the tape decides, equal in two blocks.
SameDecoded(b, d) ==
    /\ b.b_state = d.b_state /\ b.b_type = d.b_type
    /\ b.b_length = d.b_length /\ b.b_cksum = d.b_cksum
    /\ b.b_data = d.b_data /\ b.b_progname = d.b_progname
    /\ b.b_filetype = d.b_filetype /\ b.b_asciiflag = d.b_asciiflag
    /\ b.b_gapflag = d.b_gapflag
    /\ b.b_mlstart = d.b_mlstart /\ b.b_mlload = d.b_mlload

\* C1: in a state that counts bits, a cycle that is neither a one nor a
\* zero leaves the byte in progress and the bit counter of the current
\* block as they were.
C1_NoiseLeavesByteAndCounter ==
    [][(/\ status = "run" /\ j < wav.samples /\ j \in wav.falls
        /\ cb # NULL /\ CountsBits(heap[cb].b_state)
        /\ Classify(count, o_one_low, O_one_high, z_zero_low, Z_zero_high) = -1)
       => (/\ heap'[cb].b_byte = heap[cb].b_byte
           /\ heap'[cb].b_nbit = heap[cb].b_nbit)]_vars

\* C2: a Data block with one payload bit inverted and the checksum byte of
\* the original payload ends the run with exit(1) at the checksum byte:
\* the run never gets past it, no block reaches BS_DONE, and only the
\* checksum error is written.
C2_FlippedBitIsFatal ==
    scen.kind = "flip" =>
        /\ DoneBlocks = {}
        /\ status \in {"run", "exit1"}
        /\ (status = "run" => j < wav.samples)
        /\ (status = "exit1" => /\ heap[1].b_state = BS_NEED_CKSUM
                                /\ heap[1].b_nbit = 8
                                /\ out = <<Printed("cksum", 0, <<>>)>>)

C2_Witness == scen.kind = "flip" /\ status = "exit1" /\ Len(scen.a.payload) = 2

\* C3: a sync byte followed by a byte that is no block type, between two
\* valid blocks a and b, does not end the run; a is completed as it is on
\* tape, and b is completed with the fields it gets in a fresh block.
C3_ResyncKeepsBothBlocks ==
    (scen.kind = "resync" /\ RunOver) =>
        /\ Len(heap) >= 2
        /\ SameDecoded(heap[1], Decoded(scen.a))
        /\ SameDecoded(heap[2], Decoded(scen.b))
        /\ heap[1].b_state = BS_DONE /\ heap[2].b_state = BS_DONE
        /\ heap[1].b_type = scen.a.type /\ heap[2].b_type = scen.b.type
        /\ heap[2].b_cksum = TapeCksum(scen.b.type, scen.b.payload)
        /\ \A a \in {1, 2} :
              heap[a].b_type = BT_DATA =>
                 LET f == IF a = 1 THEN scen.a ELSE scen.b
                 IN /\ heap[a].b_length = Len(f.payload)
                    /\ Payload(heap[a]) = f.payload

C3_Witness ==
    /\ scen.kind = "resync" /\ RunOver
    /\ scen.a.type = BT_DATA /\ scen.b.type = BT_DATA /\ scen.x = 254
    /\ heap[2].b_state = BS_DONE /\ Payload(heap[2]) = <<255>>

\* C4: the bytes of one Data block of length L, from the sync byte to the
\* leader byte, give exactly one completed block: a Data block of length L
\* whose payload is the L bytes in the order they came.
C4_OneDataBlock ==
    (scen.kind = "clean" /\ RunOver) =>
        /\ Len(heap) = 1 /\ DoneBlocks = {1}
        /\ heap[1].b_type = BT_DATA
        /\ heap[1].b_length = Len(scen.a.payload)
        /\ Payload(heap[1]) = scen.a.payload

C4_Witness ==
    /\ scen.kind = "clean" /\ RunOver /\ DoneBlocks = {1}
    /\ Len(scen.a.payload) = 2 /\ scen.a.payload[1] # scen.a.payload[2]

\* What process_bit writes when it meets a bad length in a block of type t.
BadLenMessages(t) == <<Printed("type", t, <<>>), Printed("badlen", 0, <<>>)>>

\* C11: a Namefile block with a length byte other than 15, or an End of
\* File block with a length byte other than 0, does not end the run: the
\* block goes back to BS_NEED_SYNCBYTE, and the valid block b that follows
\* is completed with the type, length, checksum and payload that b gets in
\* a freshly allocated block.
C11_BadLengthResyncs ==
    /\ (scen.kind = "badlen" /\ status = "exit1") => calls # <<>>
    /\ (scen.kind = "badlen" /\ RunOver) =>
           /\ Len(heap) = 1
           /\ heap[1].b_state = BS_DONE
           /\ SameDecoded(heap[1], Decoded(scen.b))
           /\ heap[1].b_type = scen.b.type
           /\ heap[1].b_cksum = TapeCksum(scen.b.type, scen.b.payload)
           /\ heap[1].b_type # BT_NAME => heap[1].b_length = Len(scen.b.payload)
           /\ heap[1].b_type = BT_DATA => Payload(heap[1]) = scen.b.payload
           /\ SubSeq(out, 1, 2) = BadLenMessages(scen.a.type)

\* A Namefile block of length 14 and then a Data block.
C11_Witness ==
    /\ scen.kind = "badlen" /\ RunOver
    /\ scen.a.type = BT_NAME /\ scen.x = 14 /\ scen.b.type = BT_DATA
    /\ heap[1].b_state = BS_DONE /\ Payload(heap[1]) = <<255>>
    /\ heap[1].b_cksum = 1

\* C12: with the thresholds as main starts with them, a cycle of 18 to 31
\* samples is a one, a cycle of 32 samples or more, however long, is a
\* zero, and a cycle of fewer than 18 samples is neither.
C12_DefaultRanges ==
    (cls.n >= 0 /\ o_one_low = OL /\ O_one_high = OH
         /\ z_zero_low = ZL /\ Z_zero_high = ZH) =>
        /\ (18 <= cls.n /\ cls.n <= 31 => cls.bit = 1)
        /\ (32 <= cls.n => cls.bit = 0)
        /\ (cls.n < 18 => cls.bit = -1)

\* C13: the first falling crossing of a run shifts no bit into the block
\* and does not drive process_bit, however many samples come before it:
\* after it the block is as it was allocated.
C13_FirstCrossingOnlyStarts ==
    [][(cls.n = -1 /\ cls'.n # -1)
          => (cls'.bit = -1 /\ heap' = <<NewBlock>>)]_vars

\* The blocks that are End of File blocks in BS_DONE.
DoneEofs == {a \in DoneBlocks : heap[a].b_type = BT_EOF}

\* The addresses of the blocks on the list of root blocks.
Listed == {Chain(heap, blocks)[k] : k \in 1..Len(Chain(heap, blocks))}

\* C14: when an End of File block reaches BS_DONE and print_prog has
\* returned, the whole list is freed in the same loop iteration, before
\* another sample is looked at: blocks, pb and cb are NULL, the next block
\* allocated is the root of a new list, no freed block is linked to a
\* block that is not freed, and while the run goes on the list holds no
\* completed End of File block: it holds every block allocated since the
\* last one completed, and no other.
C14_ListFreedAtEof ==
    /\ \A a \in freed : heap[a].b_next \in freed \cup {NULL}
    /\ \A k \in 1..Len(calls) :
          calls[k].status = "return" /\ calls[k].at = "eof"
              => \A i \in 1..Len(calls[k].chain) : calls[k].chain[i] \in freed
    /\ status = "run" =>
          /\ DoneEofs \subseteq freed
          /\ Listed = (1..Len(heap)) \ freed
          /\ freed # {} /\ Listed = {} => blocks = NULL /\ pb = NULL /\ cb = NULL
          /\ Listed # {} => /\ blocks = 1 + Cardinality(freed)
                            /\ pb = Len(heap)
                            /\ cb \in {NULL, Len(heap)}

\* The two blocks of the first program are freed, and the block allocated
\* next is the root of the list.
C14_Witness ==
    /\ scen.kind = "two" /\ status = "run"
    /\ freed = {1, 2} /\ Len(heap) = 3 /\ blocks = 3 /\ cb = 3 /\ pb = 3
    /\ heap[2].b_next = NULL /\ heap[3].b_next = NULL

\* How many bytes after the length byte a Namefile block has used up.
Consumed(b) ==
    IF b.b_state = BS_NEED_NAME THEN b.b_progname_i
    ELSE IF b.b_state = BS_NEED_FILETYPE THEN PROGNAMELEN
    ELSE IF b.b_state = BS_NEED_ASCIIFLAG THEN PROGNAMELEN + 1
    ELSE IF b.b_state = BS_NEED_GAPFLAG THEN PROGNAMELEN + 2
    ELSE IF b.b_state = BS_NEED_STARTADDR THEN PROGNAMELEN + 3 + b.b_mlstart_i
    ELSE IF b.b_state = BS_NEED_LOADADDR
         THEN PROGNAMELEN + 3 + MLSTARTLEN + b.b_mlload_i
    ELSE NAMEBLOCKLEN

\* The fields of a Namefile block in the order of struct block.
NameFields(b) ==
    SubSeq(b.b_progname, 1, PROGNAMELEN)
        \o <<b.b_filetype, b.b_asciiflag, b.b_gapflag>>
        \o b.b_mlstart \o b.b_mlload

\* The states of a Namefile block from its length byte on.
NameStates ==
    {BS_NEED_NAME, BS_NEED_FILETYPE, BS_NEED_ASCIIFLAG, BS_NEED_GAPFLAG,
     BS_NEED_STARTADDR, BS_NEED_LOADADDR, BS_NEED_CKSUM, BS_NEED_LEADBYTE,
     BS_DONE}

\* C18: after the length byte 15 of a Namefile block, the state tells how
\* many of the 15 bytes were used up, and the fields hold those bytes in
\* the order 8 bytes of name, file type, ASCII flag, gap flag, 2 bytes of
\* start address, 2 bytes of load address, each field in the order of
\* arrival and the fields not reached yet still zero; the checksum and
\* lead byte states come after the 15th byte, and b_length is 15 until the
\* load address, 14 after its first byte and 13 from its second byte on,
\* in the completed block too.
C18_NameFieldsInOrder ==
    (scen.kind = "name" /\ Len(heap) = 1 /\ heap[1].b_type = BT_NAME
        /\ heap[1].b_state \in NameStates) =>
        LET b == heap[1]
            n == Consumed(b)
        IN  /\ NameFields(b)
                  = [k \in 1..NAMEBLOCKLEN |->
                        IF k <= n THEN scen.a.payload[k] ELSE 0]
            /\ b.b_progname[PROGNAMELEN + 1] = 0
            /\ b.b_length = IF n <= 13 THEN NAMEBLOCKLEN ELSE NAMEBLOCKLEN - (n - 13)
            /\ b.b_state = BS_DONE => b.b_length = 13
            /\ RunOver => b.b_state = BS_DONE

\* The 15 bytes of the Namefile block are in its fields and the checksum
\* byte is next.
C18_Witness ==
    /\ scen.kind = "name" /\ Len(heap) = 1 /\ heap[1].b_state = BS_NEED_CKSUM
    /\ SubSeq(heap[1].b_progname, 1, 2) = <<254, 253>>
    /\ heap[1].b_length = 13 /\ heap[1].b_filetype = 251
    /\ heap[1].b_asciiflag = 247 /\ heap[1].b_gapflag = 239
    /\ heap[1].b_mlstart = <<223, 191>> /\ heap[1].b_mlload = <<127, 252>>

\* The states of a block from its last payload byte on.
CksumStates == {BS_NEED_CKSUM, BS_NEED_LEADBYTE, BS_DONE}

\* The length byte a block in one of CksumStates has read: a Namefile
\* block's b_length was counted down after it was compared with
\* NAMEBLOCKLEN.
LengthRead(b) == IF b.b_type = BT_NAME THEN NAMEBLOCKLEN ELSE b.b_length

\* The sum of the bytes a block has stored after its length byte.
PayloadSum(b) ==
    IF b.b_type = BT_DATA THEN SumRange(b.b_data, 1, b.b_length)
    ELSE IF b.b_type = BT_NAME
         THEN SumRange(b.b_progname, 1, PROGNAMELEN) + b.b_filetype
                  + b.b_asciiflag + b.b_gapflag
                  + SumBytes(b.b_mlstart, 1) + SumBytes(b.b_mlload, 1)
         ELSE 0

\* C17: from the time a Namefile, Data or End of File block is in
\* BS_NEED_CKSUM, b_cksum is its type byte plus the length byte read plus
\* the bytes stored after the length byte, modulo 256; a block that was
\* completed after a bad block type or a bad length has the checksum of
\* the bytes after the sync byte that was accepted last.
C17_CksumIsSum ==
    /\ \A a \in 1..Len(heap) :
          heap[a].b_state \in CksumStates =>
              heap[a].b_cksum
                  = U8(heap[a].b_type + LengthRead(heap[a]) + PayloadSum(heap[a]))
    /\ (scen.kind = "resync" /\ Len(heap) = 2
            /\ heap[2].b_state \in CksumStates) =>
           heap[2].b_cksum = TapeCksum(scen.b.type, scen.b.payload)
    /\ (scen.kind = "badlen" /\ heap # <<>>
            /\ heap[1].b_state \in CksumStates) =>
           heap[1].b_cksum = TapeCksum(scen.b.type, scen.b.payload)

\* After a Namefile type with the length 14, a Data block with the byte
\* 0xFF has come to its checksum byte: its sum is 1 + 1 + 255 modulo 256.
C17_Witness ==
    /\ scen.kind = "badlen" /\ scen.a.type = BT_NAME /\ scen.x = 14
    /\ scen.b = DataF(<<255>>) /\ Len(heap) = 1
    /\ heap[1].b_state = BS_NEED_CKSUM /\ heap[1].b_type = BT_DATA
    /\ heap[1].b_data_i = 1 /\ heap[1].b_cksum = 1

\* The states of a Data block from its length byte on.
DataStates == {BS_NEED_DATA, BS_NEED_CKSUM, BS_NEED_LEADBYTE, BS_DONE}

\* C16: a Data block with length byte L is in BS_NEED_DATA while fewer
\* than L bytes are stored and leaves it when b_data_i is L (for L = 0
\* with no byte stored), b_data_i is never above L, and no byte is stored
\* outside the buffer allocated for the block (the run does nothing
\* undefined before print_prog is called).
C16_DataLeavesAfterLength ==
    scen.kind \in {"clean", "empty"} =>
        /\ ~(status \in UBOutcomes /\ calls = <<>>)
        /\ \A a \in 1..Len(heap) :
              heap[a].b_type = BT_DATA /\ heap[a].b_state \in DataStates =>
                  /\ heap[a].b_data_i <= heap[a].b_length
                  /\ heap[a].b_state = BS_NEED_DATA
                        <=> heap[a].b_data_i < heap[a].b_length
                  /\ heap[a].b_data_i <= Len(heap[a].b_data)

\* C22: a block that is in BS_DONE keeps every field but b_next in every
\* step, and its b_next is written once only: it goes from NULL to the
\* address of the block allocated next, in the step that allocates that
\* block, and only while the block is the last of the list (pb).
C22_DoneBlocksKeepFields ==
    [][\A a \in 1..Len(heap) :
          heap[a].b_state = BS_DONE =>
              /\ [heap'[a] EXCEPT !.b_next = NULL] = [heap[a] EXCEPT !.b_next = NULL]
              /\ heap'[a].b_next # heap[a].b_next =>
                    /\ heap[a].b_next = NULL /\ a = pb
                    /\ Len(heap') = Len(heap) + 1
                    /\ heap'[a].b_next = Len(heap')
              /\ (Len(heap') = Len(heap) + 1 /\ a = pb) =>
                    heap'[a].b_next = Len(heap')]_vars

\* A completed Data block is linked to the block allocated after it, which
\* has found its sync byte.
C22_Witness ==
    /\ Len(heap) = 2 /\ heap[1].b_state = BS_DONE /\ heap[1].b_type = BT_DATA
    /\ heap[1].b_next = 2 /\ heap[2].b_state = BS_NEED_BLOCKTYPE

\* The eight bits of a byte, in the order of arrival.
Octets == [1..8 -> {0, 1}]

\* bits[1] + 2 * bits[2] + ... + 128 * bits[8]
ByteOf(bits) == SumRange([k \in 1..8 |-> bits[k] * 2 ^ (k - 1)], 1, 8)

\* The states in which process_bit counts the bits of a byte.
ByteStates ==
    {BS_NEED_BLOCKTYPE, BS_NEED_LENGTH, BS_NEED_NAME, BS_NEED_FILETYPE,
     BS_NEED_ASCIIFLAG, BS_NEED_GAPFLAG, BS_NEED_STARTADDR, BS_NEED_LOADADDR,
     BS_NEED_DATA, BS_NEED_CKSUM, BS_NEED_LEADBYTE}

\* The number of falling crossings main has gone through: it classified at
\* most that many cycles as a bit.
CrossingsSeen == Cardinality({k \in wav.falls : k < j})

\* C26: the first block of a recording leaves BS_NEED_SYNCBYTE only after
\* eight bits were received: when it has just found the sync byte, main
\* has classified at least eight cycles.
C26_SyncAfterEightBits ==
    (Len(heap) = 1 /\ heap[1].b_state = BS_NEED_BLOCKTYPE /\ heap[1].b_nbit = 1) =>
        CrossingsSeen >= 8

\* C23: a byte starts with b_byte 0 and b_nbit 1; the bits of the byte
\* received so far are the high bits of b_byte, the first of them lowest;
\* and whatever eight ones and zeros come next, process_bit leaves the
\* first seven in b_byte without a change of state, the eighth makes
\* b_byte the sum of bits[k] * 2^(k-1), that byte is used up in the same
\* call, and b_byte is 0 and b_nbit 1 again when the call returns 0.
C23_EightBitsMakeAByte ==
    (cb # NULL /\ status = "run" /\ heap[cb].b_state \in ByteStates) =>
        LET b == heap[cb] IN
        /\ b.b_nbit \in 1..8
        /\ b.b_byte % (2 ^ (9 - b.b_nbit)) = 0
        /\ (b.b_nbit = 1 /\ count = 1) =>
              \A bits \in Octets :
                  LET b7 == FeedBits(b, SubSeq(bits, 1, 7), 1)
                      s == ShiftBit(b7, bits[8])
                      r == process_bit(s)
                  IN  /\ b7.b_nbit = 8 /\ b7.b_state = b.b_state
                      /\ b7.b_byte = 2 * ByteOf(SubSeq(bits, 1, 7) \o <<0>>)
                      /\ s.b_byte = ByteOf(bits)
                      /\ r.rc = 0 => r.cb.b_byte = 0 /\ r.cb.b_nbit = 1
                      /\ r.rc # 0 => r.cb = s

\* The byte 0x41 of a Data block came in as 1 0 0 0 0 0 1 0 and is stored;
\* the next byte starts.
C23_Witness ==
    /\ scen.kind = "clean" /\ cb = 1 /\ Len(heap) = 1
    /\ heap[1].b_state = BS_NEED_CKSUM /\ heap[1].b_length = 1
    /\ Payload(heap[1]) = <<65>>
    /\ heap[1].b_byte = 0 /\ heap[1].b_nbit = 1

\* C10: print_prog is called once for each End of File block that reached
\* BS_DONE and never otherwise: every call is made from the completion of
\* an End of File block, on a list that this block ends.
C10_OnlyOnSealedChains ==
    /\ \A k \in 1..Len(calls) : calls[k].at = "eof" /\ calls[k].sealed
    /\ Len(calls) = Cardinality({a \in DoneBlocks : heap[a].b_type = BT_EOF})

-----------------------------------------------------------------------------
(* The classifier                                                          *)

InOne(n) == o_one_low <= n /\ n <= O_one_high

InZero(n) == z_zero_low <= n /\ n <= Z_zero_high

\* C5: a cycle of n samples is a one if n is in the range of a one, a
\* zero if n is in the range of a zero, and neither otherwise; n =
\* one_high is a one, n = zero_low is a zero, and n between one_high and
\* zero_low is neither and shifts nothing in.
C5_AsStated ==
    cls.n >= 0 =>
        /\ (InOne(cls.n) => cls.bit = 1)
        /\ (InZero(cls.n) => cls.bit = 0)
        /\ (~InOne(cls.n) /\ ~InZero(cls.n) => cls.bit = -1)
        /\ (cls.n = O_one_high => cls.bit = 1)
        /\ (cls.n = z_zero_low => cls.bit = 0)
        /\ (O_one_high < cls.n /\ cls.n < z_zero_low
               => cls.bit = -1 /\ cls.is = cls.was)

-----------------------------------------------------------------------------
(* The reconstructor on the chains of whole programs                       *)

\* Longest line body of the programs whose lines are split over two blocks.
MaxBody == 3

RECURSIVE Flatten(_, _)
\* The sequences of ss[k..], one after the other.
Flatten(ss, k) == IF k > Len(ss) THEN <<>> ELSE ss[k] \o Flatten(ss, k + 1)

\* The blocks of a program on tape: a Namefile block or none, one Data
\* block for each payload of datas, and the End of File block.
ProgramFrames(name, datas) ==
    (IF name THEN <<NameF>> ELSE <<>>)
        \o [k \in 1..Len(datas) |-> DataF(datas[k])] \o <<EofF>>

ProgramBytes(fs) == Flatten([k \in 1..Len(fs) |-> Frame(fs[k])], 1)

\* The heap after the blocks fs were decoded one after the other from the
\* start of a run: block k is at address k and linked to block k + 1.
\* (The \o makes a tuple of it, so that each block is decoded once.)
DecodedChain(fs) ==
    <<>> \o [k \in 1..Len(fs) |->
        [Decoded(fs[k]) EXCEPT !.b_next = IF k < Len(fs) THEN k + 1 ELSE NULL]]

\* The line record of a BASIC program: the block number tag, the next line
\* offset, the line number (high byte first), the body, and 0x00.
LineRecord(tag, nl, hi, lo, body) == <<tag, nl, hi, lo>> \o body \o <<0>>

\* A body in which every 0xFF is followed by the code of a function token.
RECURSIVE WellFormed(_, _)
WellFormed(body, k) ==
    IF k > Len(body) THEN TRUE
    ELSE IF body[k] = 255
         THEN /\ k < Len(body)
              /\ body[k + 1] - 128 \in 0..(Len(ftoken) - 1)
              /\ WellFormed(body, k + 2)
         ELSE WellFormed(body, k + 1)

\* 'A', the function escape, FOR/SGN.
SplitBytes == {65, 255, 128}

SplitBodies ==
    {b \in UNION {[1..n -> SplitBytes] : n \in 1..MaxBody} : WellFormed(b, 1)}

\* A line before the line that is split, or none.
SplitBefore == {<<>>, LineRecord(30, 7, 0, 5, <<66>>)}

\* A program: its blocks' payloads, the bytes it puts on tape, and what
\* tells it from the other programs of its kind.
PP(kind, name, datas, par) ==
    [kind |-> kind, name |-> name, datas |-> datas, par |-> par,
     before |-> <<>>,
     bytes |-> ProgramBytes(ProgramFrames(name, datas))]

\* The blocks on the tape of program sc, those before the program first.
AllFrames(sc) == sc.before \o ProgramFrames(sc.name, sc.datas)

\* The line "300 body" with its first s body bytes in the first Data
\* block and the rest, with the 0x00, in the second.
SplitPrograms ==
    UNION {{PP("split", FALSE,
               << pre \o <<30, 7, 1, 44>> \o SubSeq(body, 1, s),
                  SubSeq(body, s + 1, Len(body)) \o <<0, 0, 0>> >>,
               [pre |-> pre, hi |-> 1, lo |-> 44, body |-> body, s |-> s]) :
              s \in 1..Len(body), pre \in SplitBefore} : body \in SplitBodies}

\* The same line in one Data block.
SingleLayout(par) ==
    << par.pre \o LineRecord(30, 7, par.hi, par.lo, par.body) \o <<0, 0>> >>

\* The line "10 A" followed by k bytes, in the same Data block (two =
\* FALSE) or in a Data block of their own (two = TRUE).
TailBytes == {<<>>, <<0>>, <<0, 0>>, <<0, 0, 0>>, <<0, 0, 0, 0>>}

TailPrograms ==
    {PP("tail", name,
        IF two THEN <<LineRecord(30, 7, 0, 10, <<65>>), t>>
               ELSE <<LineRecord(30, 7, 0, 10, <<65>>) \o t>>,
        [k |-> Len(t), two |-> two]) :
        name \in BOOLEAN, two \in BOOLEAN, t \in TailBytes \ {<<>>}}

\* The lines "10 A" with tag t0 and "20 B" with tag t2, with cross block
\* boundaries between the two tags.
TagPrograms ==
    {PP("tags", name,
        LET l1 == LineRecord(t0, 7, 0, 10, <<65>>)
            l2 == LineRecord(U8(t0 + 256 + d), 7, 0, 20, <<66>>) \o <<0, 0>>
        IN  IF cross = 0 THEN <<l1 \o l2>>
            ELSE IF cross = 1 THEN <<l1, l2>>
            ELSE <<SubSeq(l1, 1, 3), SubSeq(l1, 4, 6), l2>>,
        [t0 |-> t0, t2 |-> U8(t0 + 256 + d), cross |-> cross]) :
        name \in BOOLEAN, t0 \in {30, 255}, d \in -1..3, cross \in 0..2}

\* Bytes at the limits of the ranges asciidump tells apart.
TokenBytes == {1, 31, 32, 65, 126, 127, 128, 205, 222, 223, 224, 254}

TokenBodies ==
    {<<c>> : c \in TokenBytes} \cup {<<c, d>> : c \in TokenBytes, d \in TokenBytes}
        \cup {<<255, 128>>, <<255, 166>>, <<65, 255, 128, 128>>}
        \cup {<<255>>, <<255, 65>>, <<255, 167>>}

\* One line "10 body".  The last three bodies have a 0xFF that no code of a
\* function token follows.
TokenPrograms ==
    {PP("tokens", FALSE, <<LineRecord(30, 7, 0, 10, body) \o <<0, 0>>>>,
        [body |-> body]) : body \in TokenBodies}

\* The bytes a cut in pieces of at most n bytes.
Chunks(a, n) ==
    [k \in 1..((Len(a) + n - 1) \div n) |->
        SubSeq(a, (k - 1) * n + 1, IF k * n < Len(a) THEN k * n ELSE Len(a))]

\* The lengths of the long bodies: one less than the line buffer, and the
\* line buffer, and one more.
LongBodies == {LINELEN - 1, LINELEN, LINELEN + 1}

\* One line "10 AAA...A" with a body of n bytes, in Data blocks of 255
\* bytes and a last one with the rest.
LongPrograms ==
    {PP("long", FALSE,
        Chunks(LineRecord(30, 7, 0, 10, [k \in 1..n |-> 65]) \o <<0, 0>>, 255),
        [n |-> n]) : n \in LongBodies}

\* The blocks that come before a program on a tape that holds more than
\* the program: a Data block of two zero bytes, a Data block of one byte,
\* or another Namefile block.
Strays == {<<DataF(<<0, 0>>)>>, <<DataF(<<255>>)>>, <<Name2F>>}

\* The program "AB" with the one line "10 PRINT" after the blocks of
\* Strays, which no End of File block follows.
StrayPrograms ==
    {[PP("stray", TRUE, <<OneLine>>, [first |-> pre[1].type])
         EXCEPT !.before = pre,
                !.bytes = ProgramBytes(pre \o ProgramFrames(TRUE, <<OneLine>>))] :
        pre \in Strays}

\* The values of the next line offset byte.
OffsetBytes == {0, 7, 255}

\* The line "10 A" with the next line offset nl: in one Data block (1),
\* with the first block ending after the tag (2), or after the offset (3),
\* and the same with the tag 0 (4).
OffsetLayout(l, nl) ==
    IF l = 1 THEN <<LineRecord(30, nl, 0, 10, <<65>>) \o <<0, 0>>>>
    ELSE IF l = 2 THEN <<<<30>>, <<nl, 0, 10, 65, 0, 0, 0>>>>
    ELSE IF l = 3 THEN <<<<30, nl>>, <<0, 10, 65, 0, 0, 0>>>>
    ELSE <<<<0, nl>>, <<0, 10, 65, 0, 0, 0>>>>

OffsetPrograms ==
    {PP("offset", name, OffsetLayout(l, nl), [l |-> l, nl |-> nl]) :
        name \in BOOLEAN, l \in 1..4, nl \in OffsetBytes}

\* Programs that stop short: the Data block ends after the next line
\* offset of its first line, or after the 0x00 of the line "10 A" with no
\* zero bytes behind it.
CutPrograms ==
    {PP("cut", name, <<d>>, [n |-> Len(d)]) :
        name \in BOOLEAN, d \in {<<30, 7>>, LineRecord(30, 7, 0, 10, <<65>>)}}

Programs == SplitPrograms \cup TailPrograms \cup TagPrograms \cup TokenPrograms
                \cup StrayPrograms \cup OffsetPrograms \cup CutPrograms

\* The run of main on the recording of a program of ps, taken up at the
\* last sample of the recording: the falling crossing that ends the last
\* bit of the leader byte that follows the End of File block.
LastSample(ps) ==
    /\ scen \in ps
    /\ LET fs == AllFrames(scen)
           n == Len(fs)
           bits == TapeBits(scen.bytes)
           eof == TapeBits(Frame(EofF))
           b6 == FeedBits(NewBlock, SubSeq(eof, 1, Len(eof) - 2), 1)
           b7 == FeedBit(b6, eof[Len(eof) - 1])
       IN  /\ \E w \in {Wave(1, bits, RunOptions)} : wav = Recording(w)
           /\ j = wav.samples - 1
           /\ count = CycleLen(eof[Len(eof)], RunOptions)
           /\ heap = [DecodedChain(fs) EXCEPT ![n] = b7]
           /\ blocks = 1 /\ cb = n /\ pb = n
           /\ nblocks = n
           /\ cls = Classified(CycleLen(eof[Len(eof) - 1], RunOptions),
                               eof[Len(eof) - 1], b6.b_byte, b7.b_byte)
    /\ freed = {}
    /\ o_one_low = RunOptions.ol /\ O_one_high = RunOptions.oh
    /\ z_zero_low = RunOptions.zl /\ Z_zero_high = RunOptions.zh
    /\ out = <<>>
    /\ status = "run"
    /\ calls = <<>>

InitPP == LastSample(Programs)

SpecPP == InitPP /\ [][Next]_vars

\* The same with the programs of one long line among the recordings.
InitLine == LastSample(Programs \cup LongPrograms)

SpecLine == InitLine /\ [][Next]_vars

-----------------------------------------------------------------------------
(* Properties of the reconstructor                                         *)

\* print_prog was called in this run.
Reconstructed == calls # <<>>

\* The first call of print_prog returned and the run went on.
Returned == calls[1].status = "return" /\ status \in {"run", "exit0"}

\* The first call of print_prog ended the run with exit(1).
Fatal == calls[1].status = "exit1" /\ status = "exit1"

\* What "Program: %8s" prints for the Namefile block of the programs.
NameHeader == Printed("program", 0, [k \in 1..PROGNAMELEN |-> PutC(NameF.payload[k])])

HeaderOf(sc) == IF sc.name THEN <<NameHeader>> ELSE <<>>

\* The lines "10 A", "20 B" and "5 B" as printed.
Line10A == Printed("line", 10, <<PutS("   10 "), PutC(65)>>)

Line20B == Printed("line", 20, <<PutS("   20 "), PutC(66)>>)

Line5B == Printed("line", 5, <<PutS("    5 "), PutC(66)>>)

\* C6: a line whose body is split over two consecutive Data blocks, with
\* at least one body byte in the first and the 0x00 in the second, is
\* printed with the line number and the text that the same line has when it
\* lies in one Data block.
C6_SplitRendersAsSingle ==
    (scen.kind = "split" /\ Reconstructed) =>
        LET single == print_prog(DecodedChain(ProgramFrames(scen.name,
                                                  SingleLayout(scen.par))), 1)
        IN /\ Returned
           /\ single.status = "return"
           /\ out = single.out
           /\ Len(out) = (IF scen.par.pre = <<>> THEN 1 ELSE 2)
           /\ scen.par.pre # <<>> => out[1] = Line5B
           /\ out[Len(out)].kind = "line"
           /\ out[Len(out)].num = 256 * scen.par.hi + scen.par.lo
           /\ out[Len(out)].text[1] = PutS("  300 ")

\* The two bytes of a function token, one in each block, after another line.
C6_Witness ==
    /\ scen.kind = "split" /\ Reconstructed
    /\ scen.par.body = <<255, 128>> /\ scen.par.s = 1 /\ scen.par.pre # <<>>
    /\ out = <<Line5B, Printed("line", 300, <<PutS("  300 "), PutS("SGN")>>)>>

RECURSIVE Rendered(_, _, _)
\* The text of body[k..] when the bytes from 0x80 up to, not including,
\* top are the codes of the statement tokens.
Rendered(body, k, top) ==
    IF k > Len(body) THEN <<>>
    ELSE LET c == body[k] IN
         IF c >= 32 /\ c <= 126
         THEN <<PutC(c)>> \o Rendered(body, k + 1, top)
         ELSE IF c >= 128 /\ c < top
              THEN <<PutS(token[c - 127])>> \o Rendered(body, k + 1, top)
              ELSE IF c = 255
                   THEN <<PutS(ftoken[body[k + 1] - 127])>>
                            \o Rendered(body, k + 2, top)
                   ELSE <<PutS("\\x" \o HexDigit[(c \div 16) + 1]
                                     \o HexDigit[(c % 16) + 1])>>
                            \o Rendered(body, k + 1, top)

\* The line "10 body" as printed, with the statement tokens ending at top.
TokenLine(body, top) ==
    <<Printed("line", 10, <<PutS("   10 ")>> \o Rendered(body, 1, top))>>

\* C7: in a body, a printable byte is printed as itself, a byte in
\* [0x80, 0xDF) as the statement token at byte - 0x80, 0xFF and the byte
\* after it as the function token at that byte - 0x80, and every other
\* byte as \xHH; this of every body, also one in which the byte after a
\* 0xFF has no row in the function table or is not a byte of the body.
C7_AsStated ==
    (scen.kind = "tokens" /\ Reconstructed) =>
        /\ Returned
        /\ out = TokenLine(scen.par.body, 223)

\* C8 as stated: at a line start with exactly three bytes left in the Data
\* block, all of them zero, print_prog returns; it does not end the run
\* and prints no further line.
C8_AsStated ==
    (scen.kind = "tail" /\ Reconstructed /\ scen.par.k = 3) =>
        /\ Returned
        /\ out = HeaderOf(scen) \o <<Line10A>>

\* C8 amended: at a line start with exactly two bytes left in the Data
\* block, both zero (the third byte read is the zero that follows the
\* payload in the buffer), print_prog returns; it does not end the run and
\* prints no further line.
C8_TwoZerosLeft ==
    (scen.kind = "tail" /\ Reconstructed /\ scen.par.k = 2) =>
        /\ Returned
        /\ out = HeaderOf(scen) \o <<Line10A>>

\* The two zero bytes in a Data block of their own, after a Namefile block.
C8_Witness ==
    /\ scen.kind = "tail" /\ Reconstructed /\ scen.par.k = 2
    /\ scen.par.two /\ scen.name
    /\ Returned /\ out = <<NameHeader, Line10A>>

\* The addresses of the completed Namefile blocks of a list.
NamesOf(chain) ==
    {chain[k] : k \in {i \in 1..Len(chain) :
                          /\ heap[chain[i]].b_type = BT_NAME
                          /\ heap[chain[i]].b_state = BS_DONE}}

\* C19: the list given to print_prog when an End of File block completes
\* starts at the Namefile block completed last before it (the one with the
\* highest address), and what is printed is the name and the lines of the
\* program that follows that Namefile block.
C19_ListStartsAtLastName ==
    \A k \in 1..Len(calls) :
        (calls[k].at = "eof" /\ NamesOf(calls[k].chain) # {}) =>
            /\ \A a \in NamesOf(calls[k].chain) : a <= calls[k].root
            /\ scen.kind = "stray" =>
                  /\ calls[k].status = "return"
                  /\ out = <<NameHeader, Printed("line", 10,
                                 <<PutS(Fmt5d(10)), PutS(token[8])>>)>>

\* After its first n entries o is the "bad start of line" message for tag
\* and what hexdump printed, and nothing else.
ComplainsAt(o, n, tag) ==
    /\ Len(o) > n
    /\ o[n + 1].kind = "badstart" /\ o[n + 1].num = tag
    /\ \A k \in (n + 2)..Len(o) :
          o[k].kind \in {"hexdump", "lastrepeated", "repeated"}

\* C20: a line whose tag is the tag of the line before it, or that tag
\* plus one, is printed, and a line with any other tag ends the run with
\* exit(1).
C20_TagAgainstPreviousTag ==
    (scen.kind = "tags" /\ Reconstructed) =>
        IF scen.par.t2 = scen.par.t0 \/ scen.par.t2 = scen.par.t0 + 1
        THEN /\ Returned
             /\ out = HeaderOf(scen) \o <<Line10A, Line20B>>
        ELSE /\ Fatal
             /\ ComplainsAt(out, Len(HeaderOf(scen)) + 1, scen.par.t2)

\* print_prog on the list of the program of scen with nl as its next line
\* offset byte.
WithOffset(nl) ==
    print_prog(DecodedChain(ProgramFrames(scen.name,
                                          OffsetLayout(scen.par.l, nl))), 1)

\* C21: two lists that differ in their next line offset bytes only make
\* print_prog print the same lines and end the same way.
C21_OffsetIgnored ==
    (scen.kind = "offset" /\ Reconstructed) =>
        \A nl \in OffsetBytes :
            /\ calls[1].status = WithOffset(nl).status
            /\ out = WithOffset(nl).out

\* C24: every byte print_prog reads is in the buffer of a completed Data
\* block of its list: on the programs without a 0xFF byte no call of
\* print_prog reads through a null pointer or outside a buffer, and the
\* last block of the list it walks is complete.
C24_ReadsInsideDataBlocks ==
    scen.kind # "tokens" =>
        \A k \in 1..Len(calls) :
            /\ calls[k].status # "ub"
            /\ \A i \in 1..Len(calls[k].chain) :
                  heap[calls[k].chain[i]].b_state = BS_DONE

\* C25: every byte in [0x80, 0xE0) has a row in token, and on every line
\* asciidump prints, the byte it takes after a 0xFF is a byte of the line
\* and has a row in ftoken: asciidump reads no byte that was not stored
\* for the line and no row outside ftoken.
C25_TokenLookupsInside ==
    /\ \A c \in 128..223 : c - 128 < Len(token)
    /\ (scen.kind = "tokens" /\ Reconstructed) =>
          /\ ~asciidump(scen.par.body, Len(scen.par.body)).ub
          /\ calls[1].status # "ub"

\* What print_prog prints for the line "10 AAA...A" of n letters.
LongLine(n) ==
    Printed("line", 10, <<PutS(Fmt5d(10))>> \o [k \in 1..n |-> PutC(65)])

\* C15: a line whose body has LINELEN bytes or fewer before its 0x00 is
\* printed and print_prog returns, and only a body of more than LINELEN
\* bytes ends the run with "Line too big for buffer".
C15_FitsIsRendered ==
    (scen.kind = "long" /\ Reconstructed) =>
        /\ scen.par.n <= LINELEN => Returned /\ out = <<LongLine(scen.par.n)>>
        /\ (Fatal /\ out[Len(out)].kind = "toobig") => scen.par.n > LINELEN

\* C9: the counter starts at the first byte of the first Data block and
\* goes up by one (modulo 256) at every block boundary the walk crosses;
\* a line whose tag is the counter or the counter plus one is printed, and
\* any other tag ends the run with exit(1) before another line is printed.
C9_TagAgainstCounter ==
    (scen.kind = "tags" /\ Reconstructed) =>
        LET counter == (scen.par.t0 + scen.par.cross) % 256
        IN IF scen.par.t2 = counter \/ scen.par.t2 = counter + 1
           THEN /\ Returned
                /\ out = HeaderOf(scen) \o <<Line10A, Line20B>>
           ELSE /\ Fatal
                /\ SubSeq(out, 1, Len(HeaderOf(scen)) + 1)
                       = HeaderOf(scen) \o <<Line10A>>
                /\ ComplainsAt(out, Len(HeaderOf(scen)) + 1, scen.par.t2)
                /\ out[Len(HeaderOf(scen)) + 2].text[2] = PutS(Fmt02x(counter))

\* A tag that was good two block boundaries earlier ends the run.
C9_Witness ==
    /\ scen.kind = "tags" /\ Reconstructed /\ Fatal
    /\ scen.par.cross = 2 /\ scen.par.t2 = scen.par.t0
    /\ ComplainsAt(out, Len(HeaderOf(scen)) + 1, scen.par.t0)

=============================================================================
